---- MODULE Spec2Model ----
(***************************************************************************)
(* Model of src/src/app.py: a Streamlit chat front end for an Ollama       *)
(* backend.  One execution of main() (a "script run") is modelled as a     *)
(* sequence of steps, one per block of main(), driven by the widget event  *)
(* that started the run.  Text is modelled as sequences of characters,     *)
(* JSON text as sequences of lexical tokens.  Spec has every script run go *)
(* to its end before the next widget event; RerunSpec adds the events that *)
(* arrive while a turn is being processed.                                 *)
(***************************************************************************)
EXTENDS Integers, Sequences, FiniteSets, TLC

(***************************************************************************)
(* Bounds of the model.                                                    *)
(***************************************************************************)
\* largest size the session and the disk may grow to: the session id, plus the
\* messages of the chat history, plus the records of the interaction log, plus
\* the saved chat files
MaxSize == 7
\* longest chat history create_prompt is applied to on its own
MaxPromptLen == 2
\* most pieces (markers, white space, letters) a reply split on its own is made of
MaxSplitPieces == 5

(***************************************************************************)
(* Text.  A Python str is a sequence of one-character strings.             *)
(***************************************************************************)
USER == <<"u", "s", "e", "r">>
ASSISTANT == <<"a", "s", "s", "i", "s", "t", "a", "n", "t">>
SYSTEM == <<"s", "y", "s", "t", "e", "m">>

\* The text of SYSTEM_PROMPT, abbreviated to its first line break and word.
SYSTEM_PROMPT == <<"\n", "Y", "o", "u", "\n">>

DEFAULT_MODEL == "llama3.2:latest"

\* Python's None, for a model name
None == "None"

Min(S) == CHOOSE x \in S : \A y \in S : x <= y

\* variant: the pattern is compiled without re.IGNORECASE
Lower_exact(c) == c

\* str.lower() on one character (re.IGNORECASE); only the letters of the
\* marker can make a difference to a match
Lower(c) ==
    CASE c = "T" -> "t"
      [] c = "H" -> "h"
      [] c = "I" -> "i"
      [] c = "N" -> "n"
      [] c = "K" -> "k"
      [] OTHER -> c

IsSpace(c) == c \in {" ", "\n", "\t"}

\* str.strip()
RECURSIVE lstrip(_)
lstrip(s) == IF s # <<>> /\ IsSpace(Head(s)) THEN lstrip(Tail(s)) ELSE s

RECURSIVE rstrip(_)
rstrip(s) ==
    IF s # <<>> /\ IsSpace(s[Len(s)]) THEN rstrip(SubSeq(s, 1, Len(s) - 1)) ELSE s

strip(s) == rstrip(lstrip(s))

(***************************************************************************)
(* split_think_content: the regular expression <think>(.*?)</think> with   *)
(* DOTALL and IGNORECASE.                                                  *)
(***************************************************************************)
OPEN_MARK == <<"<", "t", "h", "i", "n", "k", ">">>
CLOSE_MARK == <<"<", "/", "t", "h", "i", "n", "k", ">">>

\* the literal pat occurs in s at position i, letters compared without case
MatchAt(s, i, pat) ==
    /\ i >= 1
    /\ i + Len(pat) - 1 <= Len(s)
    /\ \A k \in 1..Len(pat) : Lower(s[i + k - 1]) = pat[k]

\* least position >= i at which pat occurs in s, 0 when there is none
FindFrom(s, i, pat) ==
    LET js == {j \in i..Len(s) : MatchAt(s, j, pat)}
    IN  IF js = {} THEN 0 ELSE Min(js)

\* variant: an opening marker without a closing marker matches to the end
think_search_unterminated(s, i) ==
    LET o == FindFrom(s, i, OPEN_MARK)
        c == IF o = 0 THEN 0 ELSE FindFrom(s, o + Len(OPEN_MARK), CLOSE_MARK)
    IN  IF o = 0
        THEN [found |-> FALSE, start |-> 0, stop |-> 0, group |-> <<>>]
        ELSE IF c = 0
        THEN [found |-> TRUE, start |-> o, stop |-> Len(s),
              group |-> SubSeq(s, o + Len(OPEN_MARK), Len(s))]
        ELSE [found |-> TRUE, start |-> o, stop |-> c + Len(CLOSE_MARK) - 1,
              group |-> SubSeq(s, o + Len(OPEN_MARK), c - 1)]

\* think_pattern.search from position i: the leftmost opening marker that has
\* a closing marker after it, paired with the nearest such closing marker
\* (the group is non-greedy and, with DOTALL, crosses line breaks)
think_search(s, i) ==
    LET o == FindFrom(s, i, OPEN_MARK)
        c == IF o = 0 THEN 0 ELSE FindFrom(s, o + Len(OPEN_MARK), CLOSE_MARK)
    IN  IF o = 0 \/ c = 0
        THEN [found |-> FALSE, start |-> 0, stop |-> 0, group |-> <<>>]
        ELSE [found |-> TRUE, start |-> o, stop |-> c + Len(CLOSE_MARK) - 1,
              group |-> SubSeq(s, o + Len(OPEN_MARK), c - 1)]

\* variant: sub with count=1, only the first match is removed
think_sub_first(s, i) ==
    LET m == think_search(s, i)
    IN  IF m.found
        THEN SubSeq(s, i, m.start - 1) \o SubSeq(s, m.stop + 1, Len(s))
        ELSE SubSeq(s, i, Len(s))

\* think_pattern.sub("", s): every non-overlapping match is removed, scanning
\* left to right and resuming after the end of each match
RECURSIVE think_sub(_, _)
think_sub(s, i) ==
    LET m == think_search(s, i)
    IN  IF m.found
        THEN SubSeq(s, i, m.start - 1) \o think_sub(s, m.stop + 1)
        ELSE SubSeq(s, i, Len(s))

\* variant: the message is stripped whether or not there is a match
split_think_content_trimming(raw) ==
    LET match == think_search(raw, 1)
    IN  IF match.found
        THEN [message |-> strip(think_sub(raw, 1)), thinking |-> strip(match.group)]
        ELSE [message |-> strip(raw), thinking |-> <<>>]

split_think_content(response) ==
    LET match == think_search(response, 1)
    IN  IF match.found
        THEN [message |-> strip(think_sub(response, 1)),
              thinking |-> strip(match.group)]
        ELSE [message |-> response, thinking |-> <<>>]

(***************************************************************************)
(* JSON.  A parsed JSON value (a Python object) is a tagged record; a dict *)
(* is a function from its keys to the strings they map to (the model has   *)
(* dicts of string values only).  JSON text is a sequence of lexical       *)
(* tokens, white space included.                                           *)
(***************************************************************************)
PyStr(s) == [type |-> "str", s |-> s]
PyNum(digits) == [type |-> "num", digits |-> digits]
PyList(items) == [type |-> "list", items |-> items]
PyDict(d) == [type |-> "dict", d |-> d]

\* a token: its kind, the key it spells (kind "key") and its text
Tok(t, k, v) == [t |-> t, k |-> k, v |-> v]
Punct(t) == Tok(t, "", <<>>)

Spaces(n) == [i \in 1..n |-> " "]

\* the line break and indentation json emits before an item at a level
NL(indent, level) == Tok("ws", "", <<"\n">> \o Spaces(indent * level))

\* the order in which the keys of a dict are written
KeyOrder == <<"role", "content", "extra">>

RECURSIVE dumps_members(_, _, _, _)
dumps_members(d, ks, indent, level) ==
    IF ks = <<>> THEN <<>>
    ELSE <<NL(indent, level), Tok("key", Head(ks), <<>>), Punct(":"),
           Tok("ws", "", <<" ">>), Tok("str", "", d[Head(ks)])>>
         \o (IF Len(ks) > 1 THEN <<Punct(",")>> ELSE <<>>)
         \o dumps_members(d, Tail(ks), indent, level)

RECURSIVE dumps_value(_, _, _)
RECURSIVE dumps_items(_, _, _)

dumps_items(items, indent, level) ==
    IF items = <<>> THEN <<>>
    ELSE <<NL(indent, level)>> \o dumps_value(Head(items), indent, level)
         \o (IF Len(items) > 1 THEN <<Punct(",")>> ELSE <<>>)
         \o dumps_items(Tail(items), indent, level)

\* json.dumps(val, indent=indent) at a nesting level
dumps_value(val, indent, level) ==
    CASE val.type = "str" -> <<Tok("str", "", val.s)>>
      [] val.type = "num" -> <<Tok("num", "", val.digits)>>
      [] val.type = "list" ->
            IF val.items = <<>> THEN <<Punct("["), Punct("]")>>
            ELSE <<Punct("[")>> \o dumps_items(val.items, indent, level + 1)
                 \o <<NL(indent, level), Punct("]")>>
      [] val.type = "dict" ->
            LET ks == SelectSeq(KeyOrder, LAMBDA k : k \in DOMAIN val.d)
            IN  IF ks = <<>> THEN <<Punct("{"), Punct("}")>>
                ELSE <<Punct("{")>> \o dumps_members(val.d, ks, indent, level + 1)
                     \o <<NL(indent, level), Punct("}")>>

\* a list of message dicts as a Python object
AsPyList(msgs) == PyList([i \in 1..Len(msgs) |-> PyDict(msgs[i])])

\* json.dumps / json.dump of a list of message dicts
json_dumps(msgs, indent) == dumps_value(AsPyList(msgs), indent, 0)

NoParse == [ok |-> FALSE, val |-> PyNum(<<>>), next |-> 0]

\* the members of a JSON object from token i on, d holding the members read
RECURSIVE ParseMembers(_, _, _)
ParseMembers(toks, i, d) ==
    IF i + 3 > Len(toks) THEN NoParse
    ELSE IF toks[i].t # "key" \/ toks[i + 1].t # ":" \/ toks[i + 2].t # "str"
    THEN NoParse
    ELSE LET d2 == (toks[i].k :> toks[i + 2].v) @@ d
         IN  CASE toks[i + 3].t = "}" ->
                    [ok |-> TRUE, val |-> PyDict(d2), next |-> i + 4]
               [] toks[i + 3].t = "," -> ParseMembers(toks, i + 4, d2)
               [] OTHER -> NoParse

RECURSIVE ParseValue(_, _)
RECURSIVE ParseItems(_, _, _)

\* the items of a JSON array from token i on, items holding those read
ParseItems(toks, i, items) ==
    LET r == ParseValue(toks, i)
    IN  IF ~r.ok \/ r.next > Len(toks) THEN NoParse
        ELSE CASE toks[r.next].t = "]" ->
                    [ok |-> TRUE, val |-> PyList(Append(items, r.val)),
                     next |-> r.next + 1]
               [] toks[r.next].t = "," ->
                    ParseItems(toks, r.next + 1, Append(items, r.val))
               [] OTHER -> NoParse

\* one JSON value starting at token i
ParseValue(toks, i) ==
    IF i > Len(toks) THEN NoParse
    ELSE CASE toks[i].t = "str" ->
                [ok |-> TRUE, val |-> PyStr(toks[i].v), next |-> i + 1]
           [] toks[i].t = "num" ->
                [ok |-> TRUE, val |-> PyNum(toks[i].v), next |-> i + 1]
           [] toks[i].t = "[" ->
                IF i + 1 <= Len(toks) /\ toks[i + 1].t = "]"
                THEN [ok |-> TRUE, val |-> PyList(<<>>), next |-> i + 2]
                ELSE ParseItems(toks, i + 1, <<>>)
           [] toks[i].t = "{" ->
                IF i + 1 <= Len(toks) /\ toks[i + 1].t = "}"
                THEN [ok |-> TRUE, val |-> PyDict(<<>>), next |-> i + 2]
                ELSE ParseMembers(toks, i + 1, <<>>)
           [] OTHER -> NoParse

\* json.load: white space is skipped, one value must span the whole text;
\* ok = FALSE stands for the JSONDecodeError it raises otherwise
json_load(text) ==
    LET toks == SelectSeq(text, LAMBDA tk : tk.t # "ws")
        r == ParseValue(toks, 1)
    IN  IF r.ok /\ r.next = Len(toks) + 1
        THEN [ok |-> TRUE, val |-> r.val]
        ELSE [ok |-> FALSE, val |-> NoParse.val]

\* variant: only the top-level type is validated
valid_format_any_list(val) == val.type = "list"

\* the validation of a loaded chat history (the isinstance / all test)
valid_format(val) ==
    /\ val.type = "list"
    /\ \A i \in 1..Len(val.items) :
          /\ val.items[i].type = "dict"
          /\ "role" \in DOMAIN val.items[i].d
          /\ "content" \in DOMAIN val.items[i].d

\* variant: the system message is appended after the history
create_prompt_system_last(history) ==
    [i \in 1..Len(history) |->
          [role |-> history[i].role, content |-> history[i].content]]
    \o <<[role |-> SYSTEM, content |-> SYSTEM_PROMPT]>>

\* create_prompt
create_prompt(history) ==
    <<[role |-> SYSTEM, content |-> SYSTEM_PROMPT]>>
    \o [i \in 1..Len(history) |->
          [role |-> history[i].role, content |-> history[i].content]]

(***************************************************************************)
(* The environment: what the model runner, the user and the clock supply.  *)
(***************************************************************************)
\* the models ollama.list() reports when the backend answers
INSTALLED == <<DEFAULT_MODEL, "qwen3:latest">>

\* the texts a user may type into the chat input
UserInputs == {<<"H", "i">>}

\* the raw replies the backend may give
THINK_REPLY == OPEN_MARK \o <<"c">> \o CLOSE_MARK \o <<"Y", "o">>
Responses == {THINK_REPLY, <<"o", "k">>}

\* the values datetime.now().isoformat() may take (a wall clock, not ordered)
Timestamps == {"t1"}

\* chat files a user may upload that the application did not write itself
GoodUpload ==
    json_dumps(<<[role |-> SYSTEM, content |-> <<"o", "k">>, extra |-> <<"e">>]>>, 2)
NoContentUpload ==
    dumps_value(PyList(<<PyDict([role |-> USER, content |-> <<"?">>]),
                         PyDict([role |-> USER])>>), 4, 0)
NoRoleUpload == dumps_value(PyList(<<PyDict([content |-> <<"?">>])>>), 4, 0)
NotListUpload == dumps_value(PyDict([role |-> USER, content |-> <<"?">>]), 4, 0)
TruncatedUpload == SubSeq(GoodUpload, 1, Len(GoodUpload) - 1)
ValidUploads == {GoodUpload}
MalformedUploads == {NoContentUpload, NoRoleUpload, NotListUpload}
UnparseableUploads == {TruncatedUpload}
ForeignUploads == ValidUploads \cup MalformedUploads \cup UnparseableUploads

(***************************************************************************)
(* State.                                                                  *)
(***************************************************************************)
VARIABLES
    chat_history,      \* st.session_state.chat_history
    current_model,     \* st.session_state.current_model
    session_id,        \* st.session_state.session_id; uuid4 values are 1, 2, ...
    models,            \* the options the model selectbox was last built with
    uploaded_history,  \* the file held by the "Load Chat" uploader: <<>> or <<text>>
    saved_chats,       \* the files under CHAT_SAVE_PATH, by the session id in their name
    logfile,           \* the lines of LOGFILE_PATH
    pc,                \* the block of main() the script run is at; "done" at its
                       \* end, "idle" between script runs
    trigger,           \* the widget event that started the script run
    messages,          \* get_model_response's prompt
    response,          \* the reply of ollama.chat
    notices,           \* st.toast / st.error messages of the script run
    fault,             \* the call whose exception ended the script run uncaught
    turn_start,        \* chat history and log as they were on entry to the input block
    dumped,            \* for each saved file, the history that was passed to json.dump
    msg,               \* main's msg: the visible part of the reply (line 198)
    thinking,          \* main's thinking: the reasoning part of the reply (line 198)
    listed,            \* what ollama.list() did in this script run
    pending,           \* the rerun a widget event requested while a script run is going
    in_turn,           \* a user message was appended and its turn has not ended
    from_snapshot      \* the history was loaded from a file and not reset since

vars == <<chat_history, current_model, session_id, models, uploaded_history,
          saved_chats, logfile, pc, trigger, messages, response, notices, fault,
          turn_start, dumped, msg, thinking, listed, pending, in_turn,
          from_snapshot>>

session == <<chat_history, current_model, session_id>>
disk == <<saved_chats, logfile, dumped>>
locals == <<messages, response>>
view == <<msg, thinking>>

\* no rerun is requested
NoRerun == <<>>

Event(kind, text, model) == [kind |-> kind, text |-> text, model |-> model]

NoEvent == Event("none", <<>>, None)

NoTurn == [chat_history |-> <<>>, logfile |-> <<>>]

\* str(uuid.uuid4()): a value no earlier call returned; the ids handed out so
\* far are 1..session_id
uuid4 == session_id + 1

Init ==
    /\ chat_history = <<>>
    /\ current_model = DEFAULT_MODEL
    /\ session_id = 1
    /\ models = <<>>
    /\ uploaded_history = <<>>
    /\ saved_chats = <<>>
    /\ logfile = <<>>
    /\ pc = "sidebar"
    /\ trigger = NoEvent
    /\ messages = <<>>
    /\ response = <<>>
    /\ notices = {}
    /\ fault = "none"
    /\ turn_start = NoTurn
    /\ dumped = <<>>
    /\ msg = <<>>
    /\ thinking = <<>>
    /\ listed = "no"
    /\ pending = NoRerun
    /\ in_turn = FALSE
    /\ from_snapshot = FALSE

(***************************************************************************)
(* Widget events.  Each starts a script run of main() from the top.        *)
(***************************************************************************)
\* what a script run may add: session ids (a reset, a held upload), a user and
\* an assistant message and a log record (an input), a chat file (a save)
Size ==
    session_id + Len(chat_history) + Len(logfile) + Cardinality(DOMAIN saved_chats)

Growth(kind, held) ==
    (IF kind = "reset" THEN 1 ELSE 0)
    + (IF held # <<>> THEN 1 ELSE 0)
    + (IF kind = "input" THEN 3 ELSE 0)
    + (IF kind = "save" /\ session_id \notin DOMAIN saved_chats THEN 1 ELSE 0)

StartRun(ev, held) ==
    /\ pc = "idle"
    /\ Size + Growth(ev.kind, held) <= MaxSize
    /\ pc' = "sidebar"
    /\ trigger' = ev
    /\ uploaded_history' = held
    /\ UNCHANGED <<session, models, disk, locals, notices, fault, turn_start, view,
                   listed, pending, in_turn, from_snapshot>>

ClickReset == StartRun(Event("reset", <<>>, None), uploaded_history)

ClickSave == StartRun(Event("save", <<>>, None), uploaded_history)

SubmitInput ==
    \E u \in UserInputs : StartRun(Event("input", u, None), uploaded_history)

SelectModel ==
    \E i \in 1..Len(models) :
        /\ models[i] # current_model
        /\ StartRun(Event("select", <<>>, models[i]), uploaded_history)

UploadFile ==
    \E text \in ForeignUploads \cup {saved_chats[s] : s \in DOMAIN saved_chats} :
        /\ uploaded_history # <<text>>
        /\ StartRun(Event("upload", <<>>, None), <<text>>)

RemoveFile ==
    /\ uploaded_history # <<>>
    /\ StartRun(Event("remove", <<>>, None), <<>>)

(***************************************************************************)
(* The script run: the blocks of main(), in program order.                 *)
(***************************************************************************)
Notify(text) == notices' = notices \cup {text}

\* the uncaught exception of a call ends the script run
Raise(call) ==
    /\ fault' = call
    /\ pc' = "done"

\* the blocks of main() after the sidebar's model selection, in program order
Blocks == <<"reset", "save", "load", "input">>

\* the condition under which a block of main() is entered in this script run
Enters(block) ==
    CASE block = "reset" -> trigger.kind = "reset"
      [] block = "save" -> trigger.kind = "save"
      [] block = "load" -> uploaded_history # <<>>
      [] block = "input" -> trigger.kind = "input"

\* control after the i-th block: the next block that is entered, or the end of
\* the script run
After(i) ==
    LET later == {j \in (i + 1)..Len(Blocks) : Enters(Blocks[j])}
    IN  IF later = {} THEN "done" ELSE Blocks[Min(later)]

\* what ollama.list() may do: return the listing, raise because the backend is
\* unavailable, or return a body that is not a listing (no "models" key, or an
\* item without a "model" key)
ListReplies ==
    {[did |-> "ok", raises |-> FALSE,
      body |-> [models |-> [i \in 1..Len(INSTALLED) |-> [model |-> INSTALLED[i]]]]],
     [did |-> "unavailable", raises |-> TRUE, body |-> [error |-> "refused"]],
     [did |-> "malformed", raises |-> FALSE, body |-> [error |-> "oops"]],
     [did |-> "malformed", raises |-> FALSE,
      body |-> [models |-> <<[model |-> INSTALLED[1]], [name |-> INSTALLED[2]]>>]]}

\* the try block of get_available_models raises: ollama.list() itself, the
\* lookup of "models", or the lookup of "model" in an item
list_raises(reply) ==
    \/ reply.raises
    \/ "models" \notin DOMAIN reply.body
    \/ \E i \in 1..Len(reply.body.models) : "model" \notin DOMAIN reply.body.models[i]

\* variant: the names that could be read are returned, a failure gives the
\* default model
get_available_models_default(reply) ==
    IF list_raises(reply) THEN <<DEFAULT_MODEL>>
    ELSE [i \in 1..Len(reply.body.models) |-> reply.body.models[i].model]

get_available_models(reply) ==
    IF list_raises(reply) THEN <<>>
    ELSE [i \in 1..Len(reply.body.models) |-> reply.body.models[i].model]

InSeq(x, seq) == \E i \in 1..Len(seq) : seq[i] = x

\* st.selectbox: None without options; the option the user just picked if it
\* is still offered; otherwise the option at index, which is that of the
\* current model when it is offered and the first option when it is not
selectbox(options, current, ev) ==
    IF options = <<>> THEN None
    ELSE IF ev.kind = "select" /\ InSeq(ev.model, options) THEN ev.model
    ELSE IF InSeq(current, options) THEN current
    ELSE options[1]

Sidebar ==
    /\ pc = "sidebar"
    /\ \E reply \in ListReplies :
          /\ models' = get_available_models(reply)
          /\ current_model' = selectbox(get_available_models(reply), current_model, trigger)
          /\ IF list_raises(reply)
             THEN Notify("Error fetching models") ELSE UNCHANGED notices
          /\ listed' = reply.did
    /\ pc' = After(0)
    /\ UNCHANGED <<chat_history, session_id, uploaded_history, disk, trigger,
                   locals, fault, turn_start, view, pending, in_turn, from_snapshot>>

ResetButton ==
    /\ pc = "reset"
    /\ chat_history' = <<>>
    /\ session_id' = uuid4
    /\ from_snapshot' = FALSE
    /\ Notify("Chat history has been reset.")
    /\ pc' = After(1)
    /\ UNCHANGED <<current_model, models, uploaded_history, disk, trigger, locals,
                   fault, turn_start, view, listed, pending, in_turn>>

\* variant: a lone message is saved too
has_any_history(history) == Len(history) > 0

has_history_to_save(history) == Len(history) > 1

\* open(filename, "w") and json.dump succeed
SaveWrites ==
    /\ saved_chats' = (session_id :> json_dumps(chat_history, 4)) @@ saved_chats
    /\ dumped' = (session_id :> chat_history) @@ dumped
    /\ Notify("Chat history saved.")
    /\ pc' = After(2)
    /\ UNCHANGED fault

\* open(filename, "w") raises
SaveFails ==
    /\ Raise("save")
    /\ UNCHANGED <<saved_chats, dumped, notices>>

SaveButton ==
    /\ pc = "save"
    /\ IF has_history_to_save(chat_history)
       THEN SaveWrites \/ SaveFails
       ELSE /\ Notify("No chat history to save.")
            /\ pc' = After(2)
            /\ UNCHANGED <<saved_chats, dumped, fault>>
    /\ UNCHANGED <<session, models, uploaded_history, logfile, trigger, locals,
                   turn_start, view, listed, pending, in_turn, from_snapshot>>

\* variant: the first message of the upload is left out
loaded_history_skipping(val) == [i \in 1..(Len(val.items) - 1) |-> val.items[i + 1].d]

\* the list of dicts a validated upload becomes
loaded_history(val) == [i \in 1..Len(val.items) |-> val.items[i].d]

\* variant: the loaded history stays in the current session
LoadAccepts_same_session(val) ==
    /\ chat_history' = loaded_history(val)
    /\ from_snapshot' = TRUE
    /\ Notify("Chat history loaded successfully.")
    /\ UNCHANGED session_id

LoadAccepts(val) ==
    /\ chat_history' = loaded_history(val)
    /\ session_id' = uuid4
    /\ from_snapshot' = TRUE
    /\ Notify("Chat history loaded successfully.")

LoadRejects ==
    /\ Notify("Invalid chat history format.")
    /\ UNCHANGED <<chat_history, session_id, from_snapshot>>

LoadErrors ==
    /\ Notify("Error loading chat history")
    /\ UNCHANGED <<chat_history, session_id, from_snapshot>>

LoadChat ==
    /\ pc = "load"
    /\ LET chat == json_load(uploaded_history[1])
       IN  IF chat.ok
           THEN IF valid_format(chat.val) THEN LoadAccepts(chat.val) ELSE LoadRejects
           ELSE LoadErrors
    /\ pc' = After(3)
    /\ UNCHANGED <<current_model, models, uploaded_history, disk, trigger, locals,
                   fault, turn_start, view, listed, pending, in_turn>>

\* variant: the input is appended under the assistant's role
user_message_as_assistant(user_input) == [role |-> ASSISTANT, content |-> user_input]

user_message(user_input) == [role |-> USER, content |-> user_input]

\* variant: only the visible part of the reply is kept
assistant_message_visible(reply) ==
    [role |-> ASSISTANT, content |-> split_think_content(reply).message]

assistant_message(reply) == [role |-> ASSISTANT, content |-> reply]

ChatInput ==
    /\ pc = "input"
    /\ turn_start' = [chat_history |-> chat_history, logfile |-> logfile]
    /\ chat_history' = Append(chat_history, user_message(trigger.text))
    /\ in_turn' = TRUE
    /\ pc' = "prompt"
    /\ UNCHANGED <<current_model, session_id, models, uploaded_history, disk,
                   trigger, locals, notices, fault, view, listed, pending,
                   from_snapshot>>

\* get_model_response, first statement
BuildPrompt ==
    /\ pc = "prompt"
    /\ messages' = create_prompt(chat_history)
    /\ pc' = "chat"
    /\ UNCHANGED <<session, models, uploaded_history, disk, trigger, response,
                   notices, fault, turn_start, view, listed, pending, in_turn,
                   from_snapshot>>

\* variant: a failed call is answered with an error message in the chat
ChatFails_answers ==
    /\ pc = "chat"
    /\ chat_history' = Append(chat_history, [role |-> ASSISTANT, content |-> <<"!">>])
    /\ Raise("chat")
    /\ in_turn' = FALSE
    /\ UNCHANGED <<current_model, session_id, models, uploaded_history, disk,
                   trigger, locals, notices, turn_start, view, listed, pending,
                   from_snapshot>>

\* ollama.chat raises (backend unreachable, model unknown or None), or its
\* reply has no message content
ChatFails ==
    /\ pc = "chat"
    /\ Raise("chat")
    /\ in_turn' = FALSE
    /\ UNCHANGED <<session, models, uploaded_history, disk, trigger, locals,
                   notices, turn_start, view, listed, pending, from_snapshot>>

ChatReplies ==
    /\ pc = "chat"
    /\ current_model # None
    /\ \E reply \in Responses : response' = reply
    /\ pc' = "log"
    /\ UNCHANGED <<session, models, uploaded_history, disk, trigger, messages,
                   notices, fault, turn_start, view, listed, pending, in_turn,
                   from_snapshot>>

\* variant: the whole prompt is logged as the query
log_entry_prompt_as_query(sid, timestamp, role, query, prompt, reply) ==
    [session_id |-> sid, timestamp |-> timestamp, role |-> role, query |-> prompt,
     prompt |-> prompt, response |-> reply]

log_entry(sid, timestamp, role, query, prompt, reply) ==
    [session_id |-> sid, timestamp |-> timestamp, role |-> role, query |-> query,
     prompt |-> prompt, response |-> reply]

\* variant: the log is opened with mode "w"
append_line_truncating(lines, entry) == <<entry>>

\* open(LOGFILE_PATH, "a") and one write of a line
append_line(lines, entry) == Append(lines, entry)

LogWrites ==
    /\ pc = "log"
    /\ \E timestamp \in Timestamps :
          logfile' = append_line(logfile,
              log_entry(session_id, timestamp,
                        IF chat_history # <<>>
                        THEN chat_history[Len(chat_history)].role ELSE USER,
                        IF chat_history # <<>>
                        THEN chat_history[Len(chat_history)].content ELSE <<>>,
                        json_dumps(messages, 2), response))
    /\ pc' = "append"
    /\ UNCHANGED <<session, models, uploaded_history, saved_chats, dumped, trigger,
                   locals, notices, fault, turn_start, view, listed, pending,
                   in_turn, from_snapshot>>

\* open(LOGFILE_PATH, "a") raises inside log_interaction
LogFails ==
    /\ pc = "log"
    /\ Raise("log")
    /\ in_turn' = FALSE
    /\ UNCHANGED <<session, models, uploaded_history, disk, trigger, locals,
                   notices, turn_start, view, listed, pending, from_snapshot>>

\* lines 197-205: the reply is split for display, then appended as it came
AppendAssistant ==
    /\ pc = "append"
    /\ msg' = split_think_content(response).message
    /\ thinking' = split_think_content(response).thinking
    /\ chat_history' = Append(chat_history, assistant_message(response))
    /\ in_turn' = FALSE
    /\ pc' = "done"
    /\ UNCHANGED <<current_model, session_id, models, uploaded_history, disk,
                   trigger, locals, notices, fault, turn_start, listed, pending,
                   from_snapshot>>

\* main() returns (or its exception is reported) with no rerun requested: the
\* script run is over, its locals are gone and its messages are no longer shown
\* when the next one starts
EndRun ==
    /\ pc = "done"
    /\ pending = NoRerun
    /\ pc' = "idle"
    /\ trigger' = NoEvent
    /\ messages' = <<>>
    /\ response' = <<>>
    /\ notices' = {}
    /\ fault' = "none"
    /\ turn_start' = NoTurn
    /\ msg' = <<>>
    /\ thinking' = <<>>
    /\ listed' = "no"
    /\ in_turn' = FALSE
    /\ UNCHANGED <<session, models, uploaded_history, disk, pending, from_snapshot>>

Next ==
    \/ ClickReset
    \/ ClickSave
    \/ SubmitInput
    \/ SelectModel
    \/ UploadFile
    \/ RemoveFile
    \/ Sidebar
    \/ ResetButton
    \/ SaveButton
    \/ LoadChat
    \/ ChatInput
    \/ BuildPrompt
    \/ ChatFails
    \/ ChatReplies
    \/ LogWrites
    \/ LogFails
    \/ AppendAssistant
    \/ EndRun

Spec == Init /\ [][Next]_vars

(***************************************************************************)
(* Widget events during a turn.  Streamlit does not disable the widgets    *)
(* while main() runs (st.spinner only shows a spinner): an event that      *)
(* arrives during a script run requests a rerun, the running script is     *)
(* stopped at its next st.* call, and main() runs again for the event.     *)
(* The st.* calls of a turn are at lines 190-194, after the user message   *)
(* was appended, and at lines 197-204, after get_model_response returned   *)
(* and before the assistant message is appended.                           *)
(***************************************************************************)
\* the widget events the page offers, each with the upload the uploader will hold
WidgetEvents ==
    {[ev |-> Event("reset", <<>>, None), held |-> uploaded_history],
     [ev |-> Event("save", <<>>, None), held |-> uploaded_history]}
    \cup {[ev |-> Event("input", u, None), held |-> uploaded_history] : u \in UserInputs}
    \cup {[ev |-> Event("select", <<>>, models[i]), held |-> uploaded_history] :
             i \in {j \in 1..Len(models) : models[j] # current_model}}
    \cup {[ev |-> Event("upload", <<>>, None), held |-> <<text>>] :
             text \in (ValidUploads \cup {saved_chats[f] : f \in DOMAIN saved_chats})
                      \ {uploaded_history[i] : i \in 1..Len(uploaded_history)}}
    \cup {[ev |-> Event("remove", <<>>, None), held |-> <<>>] :
             i \in 1..Len(uploaded_history)}

\* the blocks of a turn, from the append of the user message on
TurnSteps == {"prompt", "chat", "log", "append"}

\* a widget event while a turn is being processed
RequestRerun ==
    /\ pc \in TurnSteps
    /\ pending = NoRerun
    /\ \E e \in WidgetEvents :
          /\ Size + 2 + Growth(e.ev.kind, e.held) <= MaxSize
          /\ pending' = <<e>>
    /\ UNCHANGED <<session, models, uploaded_history, disk, pc, trigger, locals,
                   notices, fault, turn_start, view, listed, in_turn, from_snapshot>>

\* the script run stops at an st.* call (lines 190-194, 197-204) or has ended,
\* and main() runs again for the pending event; the turn that was stopped
\* never gets to its end
Rerun ==
    /\ pc \in {"prompt", "append", "done"}
    /\ pending # NoRerun
    /\ pc' = "sidebar"
    /\ trigger' = pending[1].ev
    /\ uploaded_history' = pending[1].held
    /\ pending' = NoRerun
    /\ messages' = <<>>
    /\ response' = <<>>
    /\ notices' = {}
    /\ fault' = "none"
    /\ turn_start' = NoTurn
    /\ msg' = <<>>
    /\ thinking' = <<>>
    /\ listed' = "no"
    /\ UNCHANGED <<session, models, disk, in_turn, from_snapshot>>

RerunNext == Next \/ RequestRerun \/ Rerun

RerunSpec == Init /\ [][RerunNext]_vars

(***************************************************************************)
(* create_prompt on its own: applied to any list of message dicts.         *)
(***************************************************************************)
PromptRoles == {USER, ASSISTANT, SYSTEM}
PromptContents == UserInputs \cup Responses

\* message dicts, with and without a key create_prompt does not copy
PromptMessages ==
    [role : PromptRoles, content : PromptContents]
    \cup [role : PromptRoles, content : PromptContents, extra : {<<"e">>}]

PromptHistories == UNION {[1..n -> PromptMessages] : n \in 0..MaxPromptLen}

PromptInit ==
    /\ chat_history \in PromptHistories
    /\ current_model = DEFAULT_MODEL
    /\ session_id = 1
    /\ models = INSTALLED
    /\ uploaded_history = <<>>
    /\ saved_chats = <<>>
    /\ logfile = <<>>
    /\ pc = "prompt"
    /\ trigger = NoEvent
    /\ messages = <<>>
    /\ response = <<>>
    /\ notices = {}
    /\ fault = "none"
    /\ turn_start = NoTurn
    /\ dumped = <<>>
    /\ msg = <<>>
    /\ thinking = <<>>
    /\ listed = "no"
    /\ pending = NoRerun
    /\ in_turn = FALSE
    /\ from_snapshot = FALSE

PromptSpec == PromptInit /\ [][BuildPrompt]_vars

(***************************************************************************)
(* split_think_content on its own: applied to any reply made of markers in *)
(* either case, white space and letters.                                   *)
(***************************************************************************)
OPEN_UPPER == <<"<", "T", "H", "I", "N", "K", ">">>
CLOSE_MIXED == <<"<", "/", "T", "h", "i", "n", "k", ">">>

SplitPieces ==
    {OPEN_MARK, OPEN_UPPER, CLOSE_MARK, CLOSE_MIXED, <<" ">>, <<"\n">>, <<"a">>}

RECURSIVE Flatten(_)
Flatten(pieces) ==
    IF pieces = <<>> THEN <<>> ELSE Head(pieces) \o Flatten(Tail(pieces))

SplitInputs ==
    {Flatten(pieces) : pieces \in UNION {[1..n -> SplitPieces] : n \in 0..MaxSplitPieces}}

\* a turn at line 197: the user message is in the history, the backend has
\* replied and the record is in the log
SplitInit ==
    /\ chat_history = <<user_message(<<"H", "i">>)>>
    /\ current_model = DEFAULT_MODEL
    /\ session_id = 1
    /\ models = INSTALLED
    /\ uploaded_history = <<>>
    /\ saved_chats = <<>>
    /\ response \in SplitInputs
    /\ messages = create_prompt(chat_history)
    /\ logfile = <<log_entry(session_id, "t1", USER, <<"H", "i">>,
                             json_dumps(messages, 2), response)>>
    /\ pc = "append"
    /\ trigger = Event("input", <<"H", "i">>, None)
    /\ notices = {}
    /\ fault = "none"
    /\ turn_start = NoTurn
    /\ dumped = <<>>
    /\ msg = <<>>
    /\ thinking = <<>>
    /\ listed = "ok"
    /\ pending = NoRerun
    /\ in_turn = TRUE
    /\ from_snapshot = FALSE

SplitSpec == SplitInit /\ [][AppendAssistant]_vars

(***************************************************************************)
(* Properties.                                                             *)
(***************************************************************************)
Last(seq) == seq[Len(seq)]

IsPrefix(a, b) == Len(a) <= Len(b) /\ SubSeq(b, 1, Len(a)) = a

\* two lists of message dicts agree in role and content, position by position
SameMessages(a, b) ==
    /\ Len(a) = Len(b)
    /\ \A i \in 1..Len(a) : a[i].role = b[i].role /\ a[i].content = b[i].content

TurnOf(kind) == pc = "done" /\ trigger.kind = kind

\* C1: when the chat call of a turn fails, the script run ends with the history
\* being the history at the start of the turn followed by the one user message,
\* no assistant message added, and the log as it was at the start of the turn.
C1_FailedCallKeepsUserMessageOnly ==
    (pc = "done" /\ fault = "chat") =>
        /\ chat_history =
              Append(turn_start.chat_history, [role |-> USER, content |-> trigger.text])
        /\ logfile = turn_start.logfile

C1_Witness ==
    /\ pc = "done"
    /\ fault = "chat"
    /\ turn_start.chat_history # <<>>
    /\ turn_start.logfile # <<>>

\* the history a completed turn leaves: the history at its start, the user
\* message, then one assistant message holding the raw reply
CompletedTurn ==
    turn_start.chat_history
    \o <<[role |-> USER, content |-> trigger.text],
         [role |-> ASSISTANT, content |-> response]>>

\* C2 (as claimed): after a turn whose chat call succeeded, the history is the
\* history at the start of the turn, then the user message, then one assistant
\* message whose content is the raw reply, reasoning block included.
C2_SuccessfulCallAppendsRawReply ==
    (TurnOf("input") /\ fault # "chat") => chat_history = CompletedTurn

\* C2, the part that holds: the same, for the turns whose log record was written.
C2_LoggedTurnAppendsRawReply ==
    (TurnOf("input") /\ fault = "none") => chat_history = CompletedTurn

C4_LogFailureStillCompletesTurn ==
    (pc = "done" /\ fault = "log") => chat_history = CompletedTurn

\* C5: a step that clears the history (reset) or replaces it from an upload
\* (successful load) sets session_id to a value that is neither the session id
\* before the step nor any id handed out earlier (the ids 1..session_id).
C5_ResetAndLoadRegenerateSessionId ==
    [][(pc = "reset" \/ (pc = "load" /\ "Chat history loaded successfully." \in notices'))
          => session_id' \notin 1..session_id
      ]_vars

C5_Witness ==
    /\ pc = "done"
    /\ "Chat history has been reset." \in notices
    /\ "Chat history loaded successfully." \in notices
    /\ session_id >= 4

\* C6 (as claimed): at the end of a script run that processed a reset, the
\* history is empty.
C6_ResetLeavesEmptyHistory == TurnOf("reset") => chat_history = <<>>

\* C7: loading an upload that does not parse, whose top-level value is not a
\* list, or that has an element without role or without content, reports the
\* failure and leaves chat history and session id as they were before the load.
InvalidUploads == MalformedUploads \cup UnparseableUploads

LoadReports == {"Invalid chat history format.", "Error loading chat history"}

C7_InvalidLoadLeavesSession ==
    [][(pc = "load" /\ uploaded_history[1] \in InvalidUploads) =>
          /\ chat_history' = chat_history
          /\ session_id' = session_id
          /\ notices' \cap LoadReports # {}
      ]_vars

C7_Witness ==
    /\ pc = "done"
    /\ uploaded_history = <<NoContentUpload>>
    /\ "Invalid chat history format." \in notices
    /\ chat_history # <<>>

\* C8: loading a file that save wrote from a history H gives a history equal to
\* H in role and content, message by message, under a session id that is not
\* the id of the session that saved the file.
C8_SaveLoadRoundTrip ==
    [][pc = "load" =>
          \A s \in DOMAIN saved_chats :
              uploaded_history[1] = saved_chats[s] =>
                  /\ SameMessages(chat_history', dumped[s])
                  /\ session_id' # s
      ]_vars

C8_Witness ==
    /\ pc = "done"
    /\ "Chat history loaded successfully." \in notices
    /\ \E s \in DOMAIN saved_chats :
          /\ uploaded_history = <<saved_chats[s]>>
          /\ Len(dumped[s]) >= 2
          /\ chat_history = dumped[s]

C10_PromptIsSystemThenHistory ==
    [][pc = "prompt" =>
          /\ Len(messages') = Len(chat_history) + 1
          /\ messages'[1] = [role |-> SYSTEM, content |-> SYSTEM_PROMPT]
          /\ \A i \in 1..Len(chat_history) :
                /\ messages'[i + 1].role = chat_history[i].role
                /\ messages'[i + 1].content = chat_history[i].content
          /\ chat_history' = chat_history
      ]_vars

C10_Witness ==
    /\ pc = "chat"
    /\ Len(chat_history) = MaxPromptLen
    /\ Len(messages) = MaxPromptLen + 1
    /\ \E i \in 1..Len(chat_history) : "extra" \in DOMAIN chat_history[i]

(***************************************************************************)
(* Properties of split_think_content.  The markers of a text are found     *)
(* here by comparing its substrings with the spellings the replies use.    *)
(***************************************************************************)
OpenMarks == {OPEN_MARK, OPEN_UPPER}
CloseMarks == {CLOSE_MARK, CLOSE_MIXED}

OpensAt(s) == {i \in 1..Len(s) : i + 6 <= Len(s) /\ SubSeq(s, i, i + 6) \in OpenMarks}
ClosesAt(s) == {i \in 1..Len(s) : i + 7 <= Len(s) /\ SubSeq(s, i, i + 7) \in CloseMarks}

NoMarkers(s) == OpensAt(s) = {} /\ ClosesAt(s) = {}

\* an opening marker with a closing marker after it
HasSpan(s) == \E o \in OpensAt(s), c \in ClosesAt(s) : o < c

\* the first span: the leftmost opening marker, the nearest closing marker after
FirstSpan(s) ==
    LET o == Min(OpensAt(s))
        c == Min({c \in ClosesAt(s) : o < c})
    IN  [open |-> o, close |-> c]

BeforeSpan(s) == SubSeq(s, 1, FirstSpan(s).open - 1)
InsideSpan(s) == SubSeq(s, FirstSpan(s).open + 7, FirstSpan(s).close - 1)
AfterSpan(s) == SubSeq(s, FirstSpan(s).close + 8, Len(s))

\* s without any of its spans, taken one after the other from the left
RECURSIVE WithoutSpans(_)
WithoutSpans(s) ==
    IF HasSpan(s) THEN BeforeSpan(s) \o WithoutSpans(AfterSpan(s)) ELSE s

Split == pc = "done" /\ trigger.kind = "input" /\ fault = "none"

\* C11 (as claimed): a reply without markers is split into the reply stripped of
\* leading and trailing white space, and an empty reasoning.
C11_NoMarkersTrimmed ==
    (Split /\ NoMarkers(response)) => (msg = strip(response) /\ thinking = <<>>)

\* C11 (amended): a reply without markers is split into the reply exactly as it
\* came, white space included, and an empty reasoning.
C11_NoMarkersUnchanged ==
    (Split /\ NoMarkers(response)) => (msg = response /\ thinking = <<>>)

C11_Witness ==
    /\ Split
    /\ NoMarkers(response)
    /\ strip(response) # response
    /\ strip(response) # <<>>
    /\ msg = response

\* C12: a reply without a complete span (no markers, a closing marker only, an
\* opening marker with no closing marker after it) is split into the reply
\* exactly as it came, untrimmed, and an empty reasoning.
C12_NoSpanUnchanged ==
    (Split /\ ~HasSpan(response)) => (msg = response /\ thinking = <<>>)

C12_Witness ==
    /\ Split
    /\ OpensAt(response) # {}
    /\ ClosesAt(response) # {}
    /\ ~HasSpan(response)
    /\ IsSpace(Last(response))
    /\ msg = response

\* C13 (as claimed): of a reply with one or more spans the reasoning is the
\* stripped inside of the first span, and the visible text is the reply with
\* the first span alone taken out, then stripped.
C13_OnlyFirstSpanRemoved ==
    (Split /\ HasSpan(response)) =>
        /\ thinking = strip(InsideSpan(response))
        /\ msg = strip(BeforeSpan(response) \o AfterSpan(response))

\* C13 (amended): of a reply with one or more spans the reasoning is the
\* stripped inside of the first span, and the visible text is the reply with
\* every span taken out, then stripped.
C13_EverySpanRemoved ==
    (Split /\ HasSpan(response)) =>
        /\ thinking = strip(InsideSpan(response))
        /\ msg = strip(WithoutSpans(response))

C13_Witness ==
    /\ Split
    /\ HasSpan(response)
    /\ HasSpan(AfterSpan(response))
    /\ thinking # <<>>
    /\ msg = strip(WithoutSpans(response))

\* C14: a reply A + open + B + close + C with one opening and one closing
\* marker, in either case, is split into A + C stripped and B stripped.
C14_OnePairSplit ==
    (/\ Split
     /\ Cardinality(OpensAt(response)) = 1
     /\ Cardinality(ClosesAt(response)) = 1
     /\ HasSpan(response)) =>
        /\ msg = strip(BeforeSpan(response) \o AfterSpan(response))
        /\ thinking = strip(InsideSpan(response))

C14_Witness ==
    /\ Split
    /\ Cardinality(OpensAt(response)) = 1
    /\ Cardinality(ClosesAt(response)) = 1
    /\ HasSpan(response)
    /\ SubSeq(response, FirstSpan(response).open, FirstSpan(response).open + 6) = OPEN_UPPER
    /\ \E i \in 1..Len(InsideSpan(response)) : InsideSpan(response)[i] = "\n"
    /\ thinking # <<>>
    /\ msg # <<>>

(***************************************************************************)
(* Properties of the failures, the turns and the log.                      *)
(***************************************************************************)
\* C15 (as claimed): no call of the backend, read of an upload, write of a
\* chat file or append to the log ends a script run with an uncaught exception.
C15_NoUncaughtFault == fault = "none"

\* C16: when ollama.list() raises or returns a body that is not a listing,
\* get_available_models gives the empty list and reports the error, no
\* exception leaves it, chat history and session id stay as they are, and the
\* script run goes on with no model selected.
C16_ListFailureGivesEmptySelection ==
    [][(pc = "sidebar" /\ listed' \in {"unavailable", "malformed"}) =>
          /\ models' = <<>>
          /\ "Error fetching models" \in notices'
          /\ fault' = "none"
          /\ chat_history' = chat_history
          /\ session_id' = session_id
          /\ current_model' = None
          /\ pc' = After(0)
      ]_vars

C16_Witness ==
    /\ pc = "input"
    /\ listed = "malformed"
    /\ models = <<>>
    /\ current_model = None
    /\ chat_history # <<>>
    /\ "Error fetching models" \in notices

\* C17 (as claimed): from the append of a turn's user message until the turn
\* has ended (the assistant message was appended, or the call failed), the
\* session id stays and the history changes only by the append of that
\* turn's assistant message.
C17_SingleFlight ==
    [][in_turn =>
          /\ session_id' = session_id
          /\ \/ chat_history' = chat_history
             \/ /\ pc = "append"
                /\ chat_history' = Append(chat_history, assistant_message(response))
      ]_vars

\* C18 (as claimed): every step of a script run that processes a user input
\* keeps the messages the history had, at their positions, and the session id;
\* also when an uploaded file is held by the uploader.
C18_TurnOnlyAppends ==
    [][(trigger.kind = "input" /\ pc # "idle") =>
          /\ IsPrefix(chat_history, chat_history')
          /\ session_id' = session_id
      ]_vars

\* C19: the record a turn writes holds the session id of the turn, the role
\* user, as query the content of the user message the turn appended (the last
\* message of the history, not the exchange), as prompt the serialisation of
\* the system message followed by the history including that user message, and
\* as response the raw reply; it is written while the history still ends with
\* the user message, and the assistant message appended next holds the
\* response of the record.
C19_LogRecordOfTurn ==
    [][/\ (pc = "log" /\ logfile' # logfile) =>
              LET rec == Last(logfile')
              IN  /\ rec.session_id = session_id
                  /\ rec.role = USER
                  /\ rec.query = trigger.text
                  /\ chat_history =
                        Append(turn_start.chat_history,
                               [role |-> USER, content |-> rec.query])
                  /\ json_load(rec.prompt).ok
                  /\ loaded_history(json_load(rec.prompt).val) =
                        <<[role |-> SYSTEM, content |-> SYSTEM_PROMPT]>>
                        \o [i \in 1..Len(chat_history) |->
                              [role |-> chat_history[i].role,
                               content |-> chat_history[i].content]]
                  /\ rec.response = response
                  /\ chat_history' = chat_history
       /\ (pc = "append" /\ chat_history' # chat_history) =>
              /\ Len(logfile) = Len(turn_start.logfile) + 1
              /\ chat_history' =
                    Append(chat_history,
                           [role |-> ASSISTANT, content |-> Last(logfile).response])
              /\ session_id' = Last(logfile).session_id
      ]_vars

C19_Witness ==
    /\ TurnOf("input")
    /\ fault = "none"
    /\ Len(turn_start.chat_history) >= 2
    /\ Len(logfile) >= 2
    /\ Last(logfile).response = THINK_REPLY
    /\ Last(logfile).query = <<"H", "i">>
    /\ Last(chat_history).content = THINK_REPLY

\* C20: between script runs, in a session whose history was empty at creation
\* or at its last reset and into which no file was loaded since, the first
\* message is a user message, every assistant message comes right after a
\* user message, and there are no more assistant than user messages.
RoleCount(history, role) == Cardinality({i \in 1..Len(history) : history[i].role = role})

C20_AssistantFollowsUser ==
    (pc = "idle" /\ ~from_snapshot) =>
        /\ chat_history # <<>> => chat_history[1].role = USER
        /\ \A i \in 1..Len(chat_history) :
              chat_history[i].role = ASSISTANT =>
                  (i > 1 /\ chat_history[i - 1].role = USER)
        /\ RoleCount(chat_history, ASSISTANT) <= RoleCount(chat_history, USER)
        /\ \A i \in 1..Len(chat_history) : chat_history[i].role \in {USER, ASSISTANT}

C20_Witness ==
    /\ pc = "idle"
    /\ ~from_snapshot
    /\ Len(chat_history) >= 4
    /\ chat_history[1].role = USER
    /\ chat_history[2].role = USER
    /\ Last(chat_history).role = ASSISTANT
    /\ session_id > 1

====
